---- MODULE Spec2Model ----
(***************************************************************************)
(* Model of the product matching service (tolmv/elasticsearch):            *)
(*   src/main.py, src/postgres_client.py, src/elasticsearch_client.py,     *)
(*   src/config.py (src/product_matching_service.py is the same pipeline   *)
(*   written as free functions).                                           *)
(*                                                                         *)
(* The main thread parses the feed twice, batches the products and         *)
(* submits one process_chunk task per batch to a thread pool; after the    *)
(* pool has drained it creates the index, reads the table back and         *)
(* submits one find_and_update_similar_products task per row.  All tasks   *)
(* share ONE psycopg2 connection, hence one PostgreSQL transaction.        *)
(***************************************************************************)
EXTENDS Integers, Sequences, FiniteSets, TLC

(***************************************************************************)
(* Bounds of the model and configuration.                                  *)
(***************************************************************************)
\* settings.CHUNK_SIZE (config.py:9, default 1000, read from the environment)
CHUNK_SIZE == 2
\* settings.MAX_WORKERS (config.py:10, default 5, read from the environment)
MAX_WORKERS == 2
\* page_size of psycopg2.extras.execute_values (library default 100): a batch
\* of more than PAGE_SIZE rows is sent as several INSERT statements
PAGE_SIZE == 1
\* most rows public.sku holds in a run of the pipeline specification: rows
\* of an earlier run and well-formed offers of the feed
MaxOffers == 2
\* longest well-formed offer section of a feed of the ingest specification
MaxIngestOffers == 3
\* longest category section of a feed of the parse specification
MaxCategories == 2
\* longest offer section of a feed of the parse specification
MaxParseOffers == 2
\* longest hit list the search engine answers with in the model
MaxHits == 1
\* most rows public.sku holds in a run of the read-back specification
MaxFetchRows == 3
\* largest max_retries connect_with_retry is called with in the model
MaxRetries == 3
\* size of es.search (elasticsearch_client.py:86): the most hits an answer holds
SearchSize == 5
\* documents the engine draws its hits from in the search specification
MaxSearchIds == 2

(***************************************************************************)
(* Python values.  Text read from the feed is a string; None is NoneValue. *)
(***************************************************************************)
NoneValue == "<None>"

\* the decimal texts the model's feeds use, with their value
IntText == ("0" :> 0) @@ ("1" :> 1) @@ ("2" :> 2) @@ ("3" :> 3) @@ ("4" :> 4) @@ ("5" :> 5)
           @@ ("100" :> 100) @@ ("80" :> 80)

\* int(x): a number for a decimal text, ValueError for any other text,
\* TypeError for None
int(x) ==
    IF x = NoneValue THEN [exc |-> "TypeError"]
    ELSE IF x \in DOMAIN IntText THEN [exc |-> "none", val |-> IntText[x]]
    ELSE [exc |-> "ValueError"]

\* float(x): as int(x) on the texts of the model (prices are whole numbers)
float(x) ==
    IF x = NoneValue THEN [exc |-> "TypeError"]
    ELSE IF x \in DOMAIN IntText THEN [exc |-> "none", val |-> IntText[x]]
    ELSE [exc |-> "ValueError"]

\* elem.get(name): the attribute's text, None when the attribute is missing
get(elem, name) == elem[name]

\* elem.get(name, 0) / elem.findtext(name, 0): the text, or the default 0 when
\* missing; int(0) = int("0") and float(0) = float("0"), so the default is
\* carried as the text "0"
get_default0(elem, name) == IF elem[name] = NoneValue THEN "0" ELSE elem[name]

\* dict.get(key, []) on the category map
dict_get(d, key) == IF key \in DOMAIN d THEN d[key] ELSE <<>>

\* d[key] = value
dict_set(d, key, value) == [k \in DOMAIN d \cup {key} |-> IF k = key THEN value ELSE d[k]]

\* the first raised exception of a sequence of evaluations, "none" if none
RECURSIVE FirstExc(_)
FirstExc(rs) ==
    IF rs = <<>> THEN "none"
    ELSE IF Head(rs).exc # "none" THEN Head(rs).exc
    ELSE FirstExc(Tail(rs))

\* "/".join(parts): the parts with the separator between them
RECURSIVE join(_, _)
join(sep, parts) ==
    IF parts = <<>> THEN <<>>
    ELSE IF Len(parts) = 1 THEN <<parts[1]>>
    ELSE <<parts[1], sep>> \o join(sep, Tail(parts))

(***************************************************************************)
(* The feed: a category section and an offer section (main.py reads the    *)
(* same file twice with ET.iterparse, once per pass).                      *)
(***************************************************************************)
Category(id, parentId, name) == [id |-> id, parentId |-> parentId, name |-> name]

Offer(id, categoryId, price, oldprice) ==
    [id |-> id, categoryId |-> categoryId, name |-> "title", price |-> price,
     discount |-> NoneValue, oldprice |-> oldprice, shop_id |-> NoneValue,
     barcode |-> NoneValue]

\* category records with an integer id, and records whose id is not an
\* integer or is missing
CategoryShapes ==
    {Category(i, p, n) : i \in {"1", "2"},
                         p \in {"0", "1", "2", "abc", NoneValue},
                         n \in {"A", "B"}}
    \cup {Category(i, NoneValue, "A") : i \in {"abc", NoneValue}}

\* offers that differ in the id attribute, in the category, or in the price
\* elements
OfferShapes ==
    {Offer(i, "2", "100", NoneValue) : i \in {"1", "abc", NoneValue}}
    \cup {Offer("1", c, "100", NoneValue) :
             c \in {"1", "2", "3", "4", "5", "80", "abc", NoneValue}}
    \cup {Offer("1", "2", p, o) : p \in {"100", "abc", NoneValue},
                                   o \in {"80", "0", "abc", NoneValue}}
    \cup {[Offer("1", "2", "100", o) EXCEPT !.discount = d] :
             o \in {"80", NoneValue}, d \in {"3", "abc"}}

\* all sequences over S of length at most n
SeqsUpTo(S, n) == UNION {[1..k -> S] : k \in 0..n}

GoodCategories == <<Category("1", NoneValue, "A"), Category("2", "1", "B")>>

\* a category section with a path of every length up to five
DeepCategories ==
    <<Category("1", NoneValue, "A"), Category("2", "1", "B"), Category("3", "2", "C"),
      Category("4", "3", "D"), Category("5", "4", "E")>>
GoodOffer == Offer("1", "2", "100", NoneValue)
BadValueOffer == Offer("1", "2", "abc", NoneValue)
MissingIdOffer == Offer(NoneValue, "2", "100", NoneValue)

\* the feeds of the pipeline and ingest specifications: up to n well-formed
\* offers, and feeds with one malformed record in either section
PipelineFeeds(n) ==
    {<<GoodCategories, [i \in 1..k |-> GoodOffer]>> : k \in 0..n}
    \cup {<<GoodCategories, <<BadValueOffer, GoodOffer>>>>,
          <<GoodCategories, <<GoodOffer, MissingIdOffer, GoodOffer>>>>,
          <<<<Category("abc", NoneValue, "A")>> \o GoodCategories, <<GoodOffer>>>>,
          <<<<Category(NoneValue, NoneValue, "A")>> \o GoodCategories, <<GoodOffer>>>>}

\* the offers of a section that parse_products yields a product for
WellFormed(offers) == {k \in 1..Len(offers) : offers[k] = GoodOffer}

\* the feeds of the parse specification: every category section with a
\* well-formed offer section, and every offer section with the deep
\* category section
ParseFeeds ==
    {<<cs, <<GoodOffer>>>> : cs \in SeqsUpTo(CategoryShapes, MaxCategories)}
    \cup {<<DeepCategories, os>> : os \in SeqsUpTo(OfferShapes, MaxParseOffers)}

(***************************************************************************)
(* State.                                                                  *)
(***************************************************************************)
VARIABLES
    feedCategories,  \* the category records of the feed, in feed order
    feedOffers,      \* the offer records of the feed, in feed order
    pc,              \* main(): the statement the main thread is at
    error,           \* the exception main() is unwinding with or has caught
    exitCode,        \* the process's exit status, "running" until it exits
    pg_client,       \* "unbound" | "open" | "closed"
    es_client,       \* "unbound" | "open" | "closed"
    closeCalls,      \* calls of pg_client.close() and es_client.close()
    ci,              \* parse_categories: records consumed
    categories,      \* parse_categories: category id -> path of names
    oi,              \* parse_products: records consumed
    chunk,           \* main(): the batch being filled
    yielded,         \* every product parse_products has yielded, in order
    errorsLogged,    \* logger.error calls of the two parse passes
    tasks,           \* everything submitted to the executors, in order
    txStatus,        \* the connection's transaction: "idle"|"intrans"|"inerror"
    pendingRows,     \* uuids inserted in the open transaction
    pendingUpdates,  \* uuid -> similar_sku written in the open transaction
    table,           \* committed rows of public.sku: uuid -> similar_sku
    esIndex,         \* the products index: "absent" | "dynamic" | "fixed"
    esDocs,          \* ids of the documents in the products index
    createCalls,     \* calls of create_products_index
    fetched,         \* fetch_products: rows the cursor has returned
    all_products,    \* main(): the rows read back
    fi,              \* main(): futures whose result was taken
    product_count,   \* main(): the reported count
    hist,            \* what has happened: sets of task indices and uuids
    query_product,   \* find_similar_products called on its own: its argument,
    query_result,    \* what es.search answered or did,
    query_returned,  \* and the call's outcome
    index_call,      \* create_products_index called on its own: its outcome
    retry            \* connect_with_retry called on its own: its frame

vars == <<feedCategories, feedOffers, pc, error, exitCode, pg_client, es_client,
          closeCalls, ci, categories, oi, chunk, yielded, errorsLogged, tasks,
          txStatus, pendingRows, pendingUpdates, table, esIndex, esDocs,
          createCalls, fetched, all_products, fi, product_count, hist,
          query_product, query_result, query_returned, index_call, retry>>

feedVars == <<feedCategories, feedOffers>>
clientVars == <<pg_client, es_client, closeCalls>>
parseVars == <<ci, categories, oi, chunk, yielded, errorsLogged>>
dbVars == <<txStatus, pendingRows, pendingUpdates, table>>
esVars == <<esIndex, esDocs>>
similarVars == <<fetched, all_products, fi, product_count>>
searchVars == <<query_product, query_result, query_returned, index_call, retry>>

NoError == [type |-> "none", origin |-> "none"]

\* similar_sku of a row: NULL until an UPDATE sets it
NullSku == [null |-> TRUE, skus |-> <<>>]
Sku(similar_uuids) == [null |-> FALSE, skus |-> similar_uuids]

\* a row an earlier run left in public.sku has a uuid no offer of this run
\* is given
OldUuids == {0}

\* what an earlier run can have left in public.sku: nothing, or a row
OldTables == {{}, OldUuids}

\* what earlier runs can have left in public.sku: any number of rows up to
\* MaxFetchRows
FetchTables == {{0 - k : k \in 0..(n - 1)} : n \in 0..MaxFetchRows}

EmptyHist ==
    [insertLogged |-> {},     \* tasks whose insert_products logged success
     insertFailed |-> {},     \* tasks whose insert_products rolled back
     insertReturned |-> {},   \* tasks whose insert_products has returned
     upsertIssued |-> {},     \* tasks that have called index_products
     upserted |-> {},         \* uuids an index_products call has returned for
     queryReturned |-> {},    \* tasks whose find_similar_products has returned
     updateIssued |-> {},     \* tasks that have called update_similar_products
     updateStmtOk |-> {},     \* tasks whose UPDATE statement succeeded
     updateFailed |-> {},     \* tasks whose update_similar_products rolled back
     started |-> {},          \* tasks a worker has started
     batches |-> <<>>]        \* the batches fetch_products has yielded

\* what es.search does: it answers with hits, answers without the hits key,
\* or raises
SearchResult(kind, hits) == [kind |-> kind, hits |-> hits]

\* the outcome of a call: not made, returned a list, or raised
NotCalled == [state |-> "not called", list |-> <<>>]
ReturnedList(l) == [state |-> "returned", list |-> l]

\* create_products_index has not been called on its own
NoIndexCall == [log |-> "not called", index |-> "absent", raised |-> "no"]

\* no call of a method of ElasticsearchClient on its own
NoSearchCall ==
    /\ query_product = [title |-> "title"]
    /\ query_result = SearchResult("raise", <<>>)
    /\ query_returned = NotCalled
    /\ index_call = NoIndexCall

InitRun(feeds, olds, indexes, maxRows) ==
    /\ \E f \in feeds :
          /\ feedCategories = f[1]
          /\ feedOffers = f[2]
          \* rows a previous run left in public.sku, NULL similar_sku
          /\ \E old \in olds :
                /\ Cardinality(old) + Cardinality(WellFormed(f[2])) <= maxRows
                /\ table = [u \in old |-> NullSku]
    /\ pc = "connect_pg"
    /\ error = NoError
    /\ exitCode = "running"
    /\ pg_client = "unbound"
    /\ es_client = "unbound"
    /\ closeCalls = [pg |-> 0, es |-> 0]
    /\ ci = 0
    /\ categories = <<>>
    /\ oi = 0
    /\ chunk = <<>>
    /\ yielded = <<>>
    /\ errorsLogged = 0
    /\ tasks = <<>>
    /\ txStatus = "idle"
    /\ pendingRows = {}
    /\ pendingUpdates = <<>>
    /\ esIndex \in indexes
    /\ esDocs = {}
    /\ createCalls = 0
    /\ fetched = 0
    /\ all_products = <<>>
    /\ fi = 0
    /\ product_count = 0
    /\ hist = EmptyHist

\* the frame of connect_with_retry(connect_func, max_retries, delay) at its
\* first statement (product_matching_service.py:179); events lists the calls
\* of connect_func by their outcome and the calls of time.sleep
RetryCall(max_retries, delay) ==
    [pc |-> "while", max_retries |-> max_retries, delay |-> delay, retries |-> 0,
     events |-> <<>>, slept |-> 0, exc |-> "none", result |-> "none"]

\* connect_with_retry has not been called on its own
NoRetryCall == [RetryCall(0, 0) EXCEPT !.pc = "not called"]

InitWith(feeds, olds, indexes, maxRows) ==
    /\ InitRun(feeds, olds, indexes, maxRows)
    /\ NoSearchCall
    /\ retry = NoRetryCall

\* a run of the pipeline: the store may hold rows, and the engine the index,
\* of an earlier run
Init == InitWith(PipelineFeeds(MaxOffers), OldTables, {"absent", "fixed"},
                 MaxOffers)

\* a run over a longer feed, on an empty store
InitIngest == InitWith(PipelineFeeds(MaxIngestOffers), {{}}, {"absent", "fixed"},
                       MaxIngestOffers)

\* a run over a feed without offers, on a store that holds rows
InitFetch == InitWith({<<GoodCategories, <<>>>>}, FetchTables, {"absent", "fixed"},
                      MaxFetchRows)

\* a run over a feed of one offer, on a store that holds a row
InitSimilar == InitWith({<<GoodCategories, <<GoodOffer>>>>}, {OldUuids},
                        {"absent", "fixed"}, Cardinality(OldUuids) + 1)

\* a run over any feed, on an empty store
InitParse == InitWith(ParseFeeds, {{}}, {"absent"}, MaxParseOffers)

\* the arguments of find_similar_products: a product with or without uuid
SearchProducts ==
    {[uuid |-> u, title |-> "title"] : u \in 1..MaxSearchIds} \cup {[title |-> "title"]}

\* what es.search(..., size=5) can do: answer with up to SearchSize hits in
\* any order, answer without hits, raise
SearchResults ==
    {SearchResult("hits", h) : h \in SeqsUpTo(1..MaxSearchIds, SearchSize)}
    \cup {SearchResult("no hits key", <<>>), SearchResult("raise", <<>>)}

\* a call of find_similar_products on any product and any answer, and a
\* call of create_products_index on any index
InitSearch ==
    /\ InitRun({<<<<>>, <<>>>>}, {{}}, {"absent", "dynamic", "fixed"}, 0)
    /\ query_product \in SearchProducts
    /\ query_result \in SearchResults
    /\ query_returned = NotCalled
    /\ index_call = NoIndexCall
    /\ retry = NoRetryCall

\* the exceptions connect_func can raise
ConnectFailures == {"OperationalError", "ConnectionError"}

\* the delays connect_with_retry is called with: none, and the default
Delays == {0, 5}

\* a call of connect_with_retry with any max_retries and delay
InitRetry ==
    /\ InitRun({<<<<>>, <<>>>>}, {{}}, {"absent"}, 0)
    /\ NoSearchCall
    /\ retry \in {RetryCall(m, d) : m \in 0..MaxRetries, d \in Delays}

(***************************************************************************)
(* main(): connecting (main.py:84-85).                                     *)
(***************************************************************************)
\* main_after with create_products_index called before the pool is left
main_after_IndexBeforeWait(stmt) ==
    CASE stmt = "connect_pg" -> "connect_es"
      [] stmt = "connect_es" -> "parse_categories"
      [] stmt = "parse_categories" -> "parse_products"
      [] stmt = "parse_products" -> "create_index"
      [] stmt = "create_index" -> "await_writes"
      [] stmt = "await_writes" -> "fetch"
      [] stmt = "fetch" -> "submit_similar"
      [] stmt = "submit_similar" -> "collect"
      [] stmt = "collect" -> "summary"
      [] stmt = "summary" -> "finally"

\* the statements of the try block of main() in program order
\* (main.py:84-133): the statement that follows each
main_after(stmt) ==
    CASE stmt = "connect_pg" -> "connect_es"
      [] stmt = "connect_es" -> "parse_categories"
      [] stmt = "parse_categories" -> "parse_products"
      [] stmt = "parse_products" -> "await_writes"
      [] stmt = "await_writes" -> "create_index"
      [] stmt = "create_index" -> "fetch"
      [] stmt = "fetch" -> "submit_similar"
      [] stmt = "submit_similar" -> "collect"
      [] stmt = "collect" -> "summary"
      [] stmt = "summary" -> "finally"

\* where main() continues when a statement of its try block raises
Raise(type, origin) ==
    /\ error' = [type |-> type, origin |-> origin]
    /\ pc' = "except"

\* pg_client = PostgresClient(settings.DATABASE_URL): psycopg2.connect
\* connects or raises
ConnectPostgres ==
    /\ pc = "connect_pg"
    /\ \/ /\ pg_client' = "open"
          /\ pc' = main_after("connect_pg")
          /\ UNCHANGED error
       \/ /\ Raise("OperationalError", "PostgresClient")
          /\ UNCHANGED pg_client
    /\ UNCHANGED <<feedVars, searchVars, exitCode, es_client, closeCalls, parseVars, tasks,
                   dbVars, esVars, createCalls, similarVars, hist>>

\* es_client = ElasticsearchClient(settings.ELASTICSEARCH_URL)
ConnectElasticsearch ==
    /\ pc = "connect_es"
    /\ \/ /\ es_client' = "open"
          /\ pc' = main_after("connect_es")
          /\ UNCHANGED error
       \/ /\ Raise("ConnectionError", "ElasticsearchClient")
          /\ UNCHANGED es_client
    /\ UNCHANGED <<feedVars, searchVars, exitCode, pg_client, closeCalls, parseVars, tasks,
                   dbVars, esVars, createCalls, similarVars, hist>>

(***************************************************************************)
(* Pass 1: parse_categories (main.py:14-30).                               *)
(***************************************************************************)
\* parse_category storing every record as a root
parse_category_ParentIgnored(elem, cats) ==
    LET category_id == int(get(elem, "id"))
        parent_id == int(get_default0(elem, "parentId"))
        exc == FirstExc(<<category_id, parent_id>>)
    IN  [exc |-> exc,
         categories |->
            IF exc # "none" THEN cats
            ELSE dict_set(cats, category_id.val, <<elem.name>>)]

\* parse_category storing nothing for a record whose parent has no entry
parse_category_OrphanDropped(elem, cats) ==
    LET category_id == int(get(elem, "id"))
        parent_id == int(get_default0(elem, "parentId"))
        exc == FirstExc(<<category_id, parent_id>>)
    IN  [exc |-> exc,
         categories |->
            IF exc # "none" THEN cats
            ELSE IF parent_id.val = 0
                 THEN dict_set(cats, category_id.val, <<elem.name>>)
                 ELSE IF parent_id.val \in DOMAIN cats
                 THEN dict_set(cats, category_id.val,
                               dict_get(cats, parent_id.val) \o <<elem.name>>)
                 ELSE cats]

\* the outcome of the try block for one category record: the exception
\* raised, and the category map afterwards
parse_category(elem, cats) ==
    LET category_id == int(get(elem, "id"))
        parent_id == int(get_default0(elem, "parentId"))
        exc == FirstExc(<<category_id, parent_id>>)
    IN  [exc |-> exc,
         categories |->
            IF exc # "none" THEN cats
            ELSE IF parent_id.val = 0
                 THEN dict_set(cats, category_id.val, <<elem.name>>)
                 ELSE dict_set(cats, category_id.val,
                               dict_get(cats, parent_id.val) \o <<elem.name>>)]

\* the exceptions the except clause of parse_categories catches (main.py:26)
CategoryCaught == {"ValueError"}

\* one iteration of the loop of parse_categories over a category record
ParseCategory ==
    /\ pc = "parse_categories"
    /\ ci < Len(feedCategories)
    /\ LET r == parse_category(feedCategories[ci + 1], categories)
       IN  /\ ci' = ci + 1
           /\ categories' = r.categories
           /\ IF r.exc = "none"
              THEN UNCHANGED <<errorsLogged, error, pc>>
              ELSE IF r.exc \in CategoryCaught
              THEN /\ errorsLogged' = errorsLogged + 1
                   /\ UNCHANGED <<error, pc>>
              ELSE /\ Raise(r.exc, "parse_categories")
                   /\ UNCHANGED errorsLogged
    /\ UNCHANGED <<feedVars, searchVars, exitCode, clientVars, oi, chunk, yielded, tasks,
                   dbVars, esVars, createCalls, similarVars, hist>>

\* parse_categories returns at the end of the feed (main.py:30, 89-95)
EndCategories ==
    /\ pc = "parse_categories"
    /\ ci = Len(feedCategories)
    /\ pc' = main_after("parse_categories")
    /\ UNCHANGED <<feedVars, searchVars, error, exitCode, clientVars, parseVars, tasks,
                   dbVars, esVars, createCalls, similarVars, hist>>

(***************************************************************************)
(* Pass 2: parse_products (main.py:33-64) and the batching loop of main()  *)
(* (main.py:94-105).                                                       *)
(***************************************************************************)
\* a str or None field of a product: text is a sequence of pieces
StrNone == <<NoneValue>>

\* category_path[i] if len(category_path) > i else None   (i counted from 0)
path_level(category_path, i) ==
    IF Len(category_path) > i THEN category_path[i + 1] ELSE NoneValue

\* path_remaining slicing from the third element
path_remaining_FromThird(category_path) ==
    IF Len(category_path) > 2
    THEN join("/", SubSeq(category_path, 3, Len(category_path)))
    ELSE StrNone

\* "/".join(category_path[3:]) if len(category_path) > 3 else None
path_remaining(category_path) ==
    IF Len(category_path) > 3
    THEN join("/", SubSeq(category_path, 4, Len(category_path)))
    ELSE StrNone

\* price_after with the operands of "or" exchanged
price_after_PriceFirst(oldprice, price) ==
    IF price.exc # "none" THEN price
    ELSE IF price.val # 0 THEN price
    ELSE oldprice

\* float(elem.findtext("oldprice", 0)) or float(elem.findtext("price", 0))
price_after(oldprice, price) ==
    IF oldprice.exc # "none" THEN oldprice
    ELSE IF oldprice.val # 0 THEN oldprice
    ELSE price

\* the outcome of the try block for one offer: the exception raised, and the
\* product built (main.py:37-59); uuid4() is modelled by the caller
parse_product(elem, cats, uuid) ==
    LET category_id == int(get_default0(elem, "categoryId"))
        product_id == int(get(elem, "id"))
        seller_id == int(get_default0(elem, "shop_id"))
        price == float(get_default0(elem, "price"))
        discount == float(get_default0(elem, "discount"))
        after == price_after(float(get_default0(elem, "oldprice")), price)
        barcode == int(get_default0(elem, "barcode"))
        exc == FirstExc(<<category_id, product_id, seller_id, price, discount,
                          after, barcode>>)
        category_path == dict_get(cats, category_id.val)
    IN  [exc |-> exc,
         product |->
            IF exc # "none" THEN <<>>
            ELSE [uuid |-> uuid,
                  product_id |-> product_id.val,
                  title |-> elem.name,
                  category_id |-> category_id.val,
                  category_lvl_1 |-> path_level(category_path, 0),
                  category_lvl_2 |-> path_level(category_path, 1),
                  category_lvl_3 |-> path_level(category_path, 2),
                  category_remaining |-> path_remaining(category_path),
                  price_before_discounts |-> price.val,
                  discount |-> discount.val,
                  price_after_discounts |-> after.val]]

\* the exceptions the except clause of parse_products catches (main.py:61)
ProductCaught == {"ValueError", "AttributeError"}

\* a task as the executor holds it: its function, its argument, where its
\* thread is, the function's locals, and the calls it has made so far
NewTask(kind, arg) ==
    [kind |-> kind, arg |-> arg, pc |-> "queued", step |-> 0, page |-> 0,
     similar_skus |-> <<>>, returned |-> "no", calls |-> <<>>]

\* executor.submit(fn, arg): never blocks, the task is queued
submit(queue, kind, arg) == Append(queue, NewTask(kind, arg))

\* chunk_full comparing with > instead of >=
chunk_full_Late(c) == Len(c) > CHUNK_SIZE

\* len(chunk) >= settings.CHUNK_SIZE (main.py:100)
chunk_full(c) == Len(c) >= CHUNK_SIZE

\* one iteration over an offer record: the generator's try block and, when
\* it yields, the body of the for loop of main()
ParseProduct ==
    /\ pc = "parse_products"
    /\ oi < Len(feedOffers)
    /\ LET r == parse_product(feedOffers[oi + 1], categories, oi + 1)
           appended == Append(chunk, r.product)
       IN  /\ oi' = oi + 1
           /\ IF r.exc = "none"
              THEN /\ yielded' = Append(yielded, r.product)
                   /\ IF chunk_full(appended)
                      THEN /\ tasks' = submit(tasks, "process_chunk", appended)
                           /\ chunk' = <<>>
                      ELSE /\ chunk' = appended
                           /\ UNCHANGED tasks
                   /\ UNCHANGED <<errorsLogged, error, pc>>
              ELSE IF r.exc \in ProductCaught
              THEN /\ errorsLogged' = errorsLogged + 1
                   /\ UNCHANGED <<yielded, chunk, tasks, error, pc>>
              ELSE \* the exception leaves the with block: the executor's
                   \* __exit__ waits for the tasks, then main() catches it
                   /\ error' = [type |-> r.exc, origin |-> "parse_products"]
                   /\ pc' = "with_exit"
                   /\ UNCHANGED <<yielded, chunk, tasks, errorsLogged>>
    /\ UNCHANGED <<feedVars, searchVars, exitCode, clientVars, ci, categories, dbVars,
                   esVars, createCalls, similarVars, hist>>

\* the generator is exhausted: if chunk: submit (main.py:104-105), then the
\* with block is left
FlushChunk ==
    /\ pc = "parse_products"
    /\ oi = Len(feedOffers)
    /\ tasks' = IF chunk # <<>> THEN submit(tasks, "process_chunk", chunk) ELSE tasks
    /\ pc' = main_after("parse_products")
    /\ UNCHANGED <<feedVars, searchVars, error, exitCode, clientVars, parseVars, dbVars,
                   esVars, createCalls, similarVars, hist>>

\* every task of the executor has finished
Drained == \A i \in 1..Len(tasks) : tasks[i].pc = "done"

\* WritesDrained of a pool that is left without waiting
WritesDrained_NoWait == TRUE

\* ThreadPoolExecutor.__exit__ of the ingest pool (main.py:97) is
\* shutdown(wait=True): it returns when every submitted task has finished
WritesDrained == Drained

\* AwaitWrites taking the result of every future, which raises what the
\* task raised
AwaitWrites_FuturesInspected ==
    /\ pc = "await_writes"
    /\ WritesDrained
    /\ IF \E i \in 1..Len(tasks) : tasks[i].returned = "raised"
       THEN /\ error' = [type |-> "Exception", origin |-> "process_chunk"]
            /\ pc' = "except"
       ELSE /\ pc' = main_after("await_writes")
            /\ UNCHANGED error
    /\ UNCHANGED <<feedVars, searchVars, exitCode, clientVars, parseVars, tasks,
                   dbVars, esVars, createCalls, similarVars, hist>>

\* the end of the with block of the ingest pool
AwaitWrites ==
    /\ pc = "await_writes"
    /\ WritesDrained
    /\ pc' = main_after("await_writes")
    /\ UNCHANGED <<feedVars, searchVars, error, exitCode, clientVars, parseVars, tasks,
                   dbVars, esVars, createCalls, similarVars, hist>>

\* an exception leaves the with block of the ingest pool: __exit__ waits for
\* the submitted tasks all the same, then main() catches the exception
AwaitWritesRaising ==
    /\ pc = "with_exit"
    /\ WritesDrained
    /\ pc' = "except"
    /\ UNCHANGED <<feedVars, searchVars, error, exitCode, clientVars, parseVars, tasks,
                   dbVars, esVars, createCalls, similarVars, hist>>

(***************************************************************************)
(* The shared psycopg2 connection (postgres_client.py:10-11): autocommit   *)
(* is off, so every statement of every thread runs in the connection's one *)
(* open transaction; psycopg2 serialises the calls, not the transactions.  *)
(***************************************************************************)
\* conn.commit(): COMMIT makes the open transaction's writes durable; on a
\* transaction a failed statement has aborted the server rolls back instead
commit(status, rows, updates, tbl) ==
    IF status = "inerror" THEN tbl
    ELSE [u \in DOMAIN tbl \cup rows |->
            IF u \in DOMAIN updates THEN Sku(updates[u])
            ELSE IF u \in DOMAIN tbl THEN tbl[u]
            ELSE NullSku]

Commit ==
    /\ table' = commit(txStatus, pendingRows, pendingUpdates, table)
    /\ txStatus' = "idle"
    /\ pendingRows' = {}
    /\ pendingUpdates' = <<>>

\* conn.rollback(): the open transaction's writes are discarded, whichever
\* thread made them
Rollback ==
    /\ txStatus' = "idle"
    /\ pendingRows' = {}
    /\ pendingUpdates' = <<>>
    /\ UNCHANGED table

(***************************************************************************)
(* The worker pool (ThreadPoolExecutor, main.py:97 and 122).               *)
(***************************************************************************)
\* ProcessChunkSteps with the two calls in the other order
ProcessChunkSteps_IndexFirst == <<"index_products", "insert_products">>

\* the calls a task makes, in order
\* process_chunk (main.py:65-67)
ProcessChunkSteps == <<"insert_products", "index_products">>
\* SimilarSteps of a task that does not store what it found
SimilarSteps_NoUpdate == <<"find_similar_products">>

\* SimilarSteps of a task that repeats its update
SimilarSteps_UpdateTwice ==
    <<"find_similar_products", "update_similar_products", "update_similar_products">>

\* the try block of find_and_update_similar_products (main.py:70-73)
SimilarSteps == <<"find_similar_products", "update_similar_products">>

Steps(kind) == IF kind = "process_chunk" THEN ProcessChunkSteps ELSE SimilarSteps

\* where a thread is when it enters a call
Entry(call) ==
    CASE call = "insert_products" -> "insert_execute"
      [] call = "index_products" -> "index_bulk"
      [] call = "find_similar_products" -> "find_search"
      [] call = "update_similar_products" -> "update_execute"

\* the task after its current call has returned: at its next call, or done
\* with the function's return value (None for process_chunk, the uuid for
\* find_and_update_similar_products, main.py:77)
Advance(t) ==
    IF t.step < Len(Steps(t.kind))
    THEN [t EXCEPT !.step = t.step + 1, !.pc = Entry(Steps(t.kind)[t.step + 1]),
                   !.calls = Append(@, Steps(t.kind)[t.step + 1])]
    ELSE [t EXCEPT !.pc = "done",
                   !.returned = IF t.kind = "process_chunk" THEN "None" ELSE "uuid"]

Running(t) == t.pc \notin {"queued", "done"}

\* a free worker is there for a queued task
WorkerFree == Cardinality({j \in 1..Len(tasks) : Running(tasks[j])}) < MAX_WORKERS

\* a worker takes the oldest queued task
StartTask(i) ==
    /\ tasks[i].pc = "queued"
    /\ \A j \in 1..(i - 1) : tasks[j].pc # "queued"
    /\ WorkerFree
    /\ tasks' = [tasks EXCEPT ![i] = Advance(tasks[i])]
    /\ hist' = [hist EXCEPT !.started = @ \cup {i}]
    /\ UNCHANGED <<feedVars, searchVars, pc, error, exitCode, clientVars, parseVars, dbVars,
                   esVars, createCalls, similarVars>>

(***************************************************************************)
(* PostgresClient.insert_products (postgres_client.py:13-39).              *)
(***************************************************************************)
uuids(products) == {products[k].uuid : k \in 1..Len(products)}

\* the rows of the next INSERT statement execute_values sends: it pages the
\* values PAGE_SIZE at a time
next_page(products, done) ==
    SubSeq(products, done + 1, IF done + PAGE_SIZE < Len(products)
                               THEN done + PAGE_SIZE ELSE Len(products))

\* execute_values(cur, query, values), one INSERT statement at a time
InsertExecute(i) ==
    /\ tasks[i].pc = "insert_execute"
    /\ LET t == tasks[i]
           page == next_page(t.arg, t.page)
       IN  \/ \* the statement succeeds
              /\ txStatus # "inerror"
              /\ txStatus' = "intrans"
              /\ pendingRows' = pendingRows \cup uuids(page)
              /\ tasks' = [tasks EXCEPT ![i] =
                    [t EXCEPT !.page = t.page + Len(page),
                              !.pc = IF t.page + Len(page) = Len(t.arg)
                                     THEN "insert_commit" ELSE "insert_execute"]]
           \/ \* the store rejects the statement: psycopg2.Error, and the
              \* transaction is aborted
              /\ txStatus # "inerror"
              /\ txStatus' = "inerror"
              /\ UNCHANGED pendingRows
              /\ tasks' = [tasks EXCEPT ![i] = [t EXCEPT !.pc = "insert_rollback"]]
           \/ \* the transaction is already aborted: InFailedSqlTransaction
              /\ txStatus = "inerror"
              /\ UNCHANGED <<txStatus, pendingRows>>
              /\ tasks' = [tasks EXCEPT ![i] = [t EXCEPT !.pc = "insert_rollback"]]
    /\ UNCHANGED <<feedVars, searchVars, pc, error, exitCode, clientVars, parseVars,
                   pendingUpdates, table, esVars, createCalls, similarVars, hist>>

\* an exception that is not a psycopg2.Error is raised in the try block of
\* insert_products before a statement is sent: the except clause (:37) does
\* not catch it, it leaves insert_products and process_chunk (main.py:66),
\* and the executor stores it in the task's future
InsertRaise(i) ==
    /\ tasks[i].pc = "insert_execute"
    /\ tasks' = [tasks EXCEPT ![i] = [@ EXCEPT !.pc = "done", !.returned = "raised"]]
    /\ UNCHANGED <<feedVars, searchVars, pc, error, exitCode, clientVars, parseVars,
                   dbVars, esVars, createCalls, similarVars, hist>>

\* self.conn.commit(); logger.info("Inserted ...")   (postgres_client.py:35-36)
InsertCommit(i) ==
    /\ tasks[i].pc = "insert_commit"
    /\ Commit
    /\ tasks' = [tasks EXCEPT ![i] = Advance(tasks[i])]
    /\ hist' = [hist EXCEPT !.insertLogged = @ \cup {i},
                            !.insertReturned = @ \cup {i}]
    /\ UNCHANGED <<feedVars, searchVars, pc, error, exitCode, clientVars, parseVars,
                   esVars, createCalls, similarVars>>

\* InsertRollback raising the error again after the rollback, which ends
\* the task
InsertRollback_Reraised(i) ==
    /\ tasks[i].pc = "insert_rollback"
    /\ Rollback
    /\ tasks' = [tasks EXCEPT ![i] = [@ EXCEPT !.pc = "done"]]
    /\ hist' = [hist EXCEPT !.insertFailed = @ \cup {i},
                            !.insertReturned = @ \cup {i}]
    /\ UNCHANGED <<feedVars, searchVars, pc, error, exitCode, clientVars, parseVars,
                   esVars, createCalls, similarVars>>

\* except psycopg2.Error: logger.error; self.conn.rollback()   (:37-39)
InsertRollback(i) ==
    /\ tasks[i].pc = "insert_rollback"
    /\ Rollback
    /\ tasks' = [tasks EXCEPT ![i] = Advance(tasks[i])]
    /\ hist' = [hist EXCEPT !.insertFailed = @ \cup {i},
                            !.insertReturned = @ \cup {i}]
    /\ UNCHANGED <<feedVars, searchVars, pc, error, exitCode, clientVars, parseVars,
                   esVars, createCalls, similarVars>>

(***************************************************************************)
(* ElasticsearchClient.index_products (elasticsearch_client.py:47-63).     *)
(***************************************************************************)
\* what helpers.bulk can leave indexed of the documents sent: all of them,
\* or, when it raises (BulkIndexError, a transport error), any part of them
BulkOutcomes(ids) == SUBSET ids

\* the index after a bulk request that stored the documents in `stored`:
\* the engine creates a missing index on the first write, with a mapping it
\* derives from the documents
index_after_bulk(index, stored) ==
    IF index = "absent" /\ stored # {} THEN "dynamic" ELSE index

\* index_products(products) as the state change of the search engine; every
\* exception is caught and logged (:62-63), so the call always returns
IndexProducts(ids, stored) ==
    /\ esDocs' = esDocs \cup stored
    /\ esIndex' = index_after_bulk(esIndex, stored)

\* es_client.index_products(chunk) in a process_chunk task (main.py:67)
IndexBulk(i) ==
    /\ tasks[i].pc = "index_bulk"
    /\ \E stored \in BulkOutcomes(uuids(tasks[i].arg)) :
          IndexProducts(uuids(tasks[i].arg), stored)
    /\ tasks' = [tasks EXCEPT ![i] = Advance(tasks[i])]
    /\ hist' = [hist EXCEPT !.upsertIssued = @ \cup {i},
                            !.upserted = @ \cup uuids(tasks[i].arg)]
    /\ UNCHANGED <<feedVars, searchVars, pc, error, exitCode, clientVars, parseVars, dbVars,
                   createCalls, similarVars>>

(***************************************************************************)
(* ElasticsearchClient.create_products_index (elasticsearch_client.py:11-45)*)
(***************************************************************************)
\* what a call does: what it logs, the index afterwards, and the call of
\* the engine that raised ("no" when none did)
CreateOutcome(log, index, raised) == [log |-> log, index |-> index, raised |-> raised]

\* create_products_index with the creation error not caught
create_products_index_Uncaught(index) ==
    {CreateOutcome("none", index, "indices.exists")}
    \cup IF index # "absent"
         THEN {CreateOutcome("already exists", index, "no")}
         ELSE {CreateOutcome("created successfully", "fixed", "no")}
              \cup {CreateOutcome("none", i, "indices.create") :
                       i \in {"absent", "fixed", "dynamic"}}

\* the outcomes of create_products_index on an index
\* (elasticsearch_client.py:38-45): indices.exists raises (it is outside
\* the try); the index exists and nothing is created; the index is absent
\* and is created with index_body; the index is absent and the create call
\* fails (the engine is unreachable, or another run has created the index
\* since the check), which is caught and logged
create_products_index(index) ==
    {CreateOutcome("none", index, "indices.exists")}
    \cup IF index # "absent"
         THEN {CreateOutcome("already exists", index, "no")}
         ELSE {CreateOutcome("created successfully", "fixed", "no")}
              \cup {CreateOutcome("Failed to create", i, "no") :
                       i \in {"absent", "fixed", "dynamic"}}

\* es_client.create_products_index() (main.py:110)
CreateProductsIndex ==
    /\ pc = "create_index"
    /\ createCalls' = createCalls + 1
    /\ \E o \in create_products_index(esIndex) :
          /\ esIndex' = o.index
          /\ IF o.raised # "no"
             THEN Raise("ConnectionError", "create_products_index")
             ELSE /\ pc' = main_after("create_index")
                  /\ UNCHANGED error
    /\ UNCHANGED <<feedVars, searchVars, exitCode, clientVars, parseVars, tasks,
                   dbVars, esDocs, similarVars, hist>>

(***************************************************************************)
(* PostgresClient.fetch_products (postgres_client.py:41-51) and the        *)
(* read-back loop of main() (main.py:115-118).                             *)
(***************************************************************************)
\* the rows of a set of uuids in the order the cursor returns them
RECURSIVE scan(_)
scan(ids) ==
    IF ids = {} THEN <<>>
    ELSE LET u == CHOOSE x \in ids : \A y \in ids : x <= y
         IN  <<[uuid |-> u]>> \o scan(ids \ {u})

\* fetchmany returning a row more than asked for
fetchmany_OneMore(rows, done, batch_size) ==
    SubSeq(rows, done + 1, IF done + batch_size + 1 < Len(rows)
                           THEN done + batch_size + 1 ELSE Len(rows))

\* cursor.fetchmany(batch_size): the next rows, at most batch_size
fetchmany(rows, done, batch_size) ==
    SubSeq(rows, done + 1, IF done + batch_size < Len(rows)
                           THEN done + batch_size ELSE Len(rows))

\* readback_indexed of a read-back loop that does not index
readback_not_indexed(batch) == {}

\* the ids of the documents the read-back loop indexes again:
\* es_client.index_products(batch) (main.py:117)
readback_indexed(batch) == uuids(batch)

\* one iteration of the for loop over fetch_products(batch_size=CHUNK_SIZE):
\* an empty fetch ends the generator, any other is indexed again and kept
FetchBatch ==
    /\ pc = "fetch"
    /\ LET batch == fetchmany(scan(DOMAIN table), fetched, CHUNK_SIZE)
       IN  \/ /\ batch = <<>>
              /\ pc' = main_after("fetch")
              /\ UNCHANGED <<fetched, all_products, esVars, hist, error, txStatus>>
           \/ /\ batch # <<>>
              /\ \E stored \in BulkOutcomes(readback_indexed(batch)) :
                    IndexProducts(readback_indexed(batch), stored)
              /\ hist' = [hist EXCEPT !.upserted = @ \cup readback_indexed(batch),
                                      !.batches = Append(@, batch)]
              /\ fetched' = fetched + Len(batch)
              /\ all_products' = all_products \o batch
              /\ txStatus' = "intrans"
              /\ UNCHANGED <<pc, error>>
           \/ \* the store fails the read: psycopg2.Error reaches main()
              /\ Raise("OperationalError", "fetch_products")
              /\ UNCHANGED <<fetched, all_products, esVars, hist, txStatus>>
    /\ UNCHANGED <<feedVars, searchVars, exitCode, clientVars, parseVars, tasks,
                   pendingRows, pendingUpdates, table, createCalls, fi,
                   product_count>>

(***************************************************************************)
(* The similarity phase: main.py:122-130, find_and_update_similar_products *)
(* (main.py:69-77), find_similar_products (elasticsearch_client.py:65-99), *)
(* update_similar_products (postgres_client.py:53-64).                     *)
(***************************************************************************)
SimilarTasks == {i \in 1..Len(tasks) : tasks[i].kind = "find_and_update_similar_products"}

\* the list comprehension of main.py:123-126, one executor.submit at a time
SubmitSimilar ==
    /\ pc = "submit_similar"
    /\ LET n == Cardinality(SimilarTasks)
       IN  IF n < Len(all_products)
           THEN /\ tasks' = submit(tasks, "find_and_update_similar_products",
                                   all_products[n + 1])
                /\ UNCHANGED pc
           ELSE /\ pc' = main_after("submit_similar")
                /\ UNCHANGED tasks
    /\ UNCHANGED <<feedVars, searchVars, error, exitCode, clientVars, parseVars, dbVars,
                   esVars, createCalls, similarVars, hist>>

\* the hit lists es.search(..., size=5) can answer with: up to MaxHits
\* distinct ids of indexed documents, in the engine's order
RECURSIVE HitLists(_, _)
HitLists(docs, n) ==
    IF n = 0 THEN {<<>>}
    ELSE LET shorter == HitLists(docs, n - 1)
         IN  shorter \cup {Append(h, d) : h \in {x \in shorter : Len(x) = n - 1},
                                          d \in docs}

Distinct(hits) == \A a, b \in 1..Len(hits) : a # b => hits[a] # hits[b]

\* [hit["_id"] for hit in hits if hit["_id"] != product["uuid"]]
RECURSIVE without_self(_, _)
without_self(hits, uuid) ==
    IF hits = <<>> THEN <<>>
    ELSE IF Head(hits) # uuid THEN <<Head(hits)>> \o without_self(Tail(hits), uuid)
    ELSE without_self(Tail(hits), uuid)

\* find_similar_products handing back the product itself when the search
\* raises
find_similar_products_SelfOnError(product, result) ==
    IF "uuid" \notin DOMAIN product THEN <<>>
    ELSE IF result.kind = "hits" THEN without_self(result.hits, product.uuid)
    ELSE <<product.uuid>>

\* find_similar_products that keeps the product itself among the hits
find_similar_products_SelfKept(product, result) ==
    IF "uuid" \notin DOMAIN product THEN <<>>
    ELSE IF result.kind = "hits" THEN result.hits
    ELSE <<>>

\* ElasticsearchClient.find_similar_products (elasticsearch_client.py:65-99),
\* given what es.search does: [] for a product without uuid, [] when the
\* search raises or answers without hits, else the hits without the product
find_similar_products(product, result) ==
    IF "uuid" \notin DOMAIN product THEN <<>>
    ELSE IF result.kind = "hits" THEN without_self(result.hits, product.uuid)
    ELSE <<>>

\* find_similar_products returns to the task, es.search having done `result`
FindSearchReturn(i, result) ==
    /\ tasks' = [tasks EXCEPT ![i] =
          Advance([tasks[i] EXCEPT
              !.similar_skus = find_similar_products(tasks[i].arg, result)])]
    /\ hist' = [hist EXCEPT !.queryReturned = @ \cup {i}]
    /\ UNCHANGED <<feedVars, searchVars, pc, error, exitCode, clientVars, parseVars, dbVars,
                   esVars, createCalls, similarVars>>

\* similar_skus = es_client.find_similar_products(product)
FindSearch(i) ==
    /\ tasks[i].pc = "find_search"
    /\ \/ \* the search answers
          /\ esIndex # "absent"
          /\ \E hits \in {h \in HitLists(esDocs, MaxHits) : Distinct(h)} :
                FindSearchReturn(i, SearchResult("hits", hits))
       \/ \* the search raises (no index, engine unreachable): return []
          FindSearchReturn(i, SearchResult("raise", <<>>))

\* cur.execute("UPDATE public.sku SET similar_sku = %s WHERE uuid = %s")
UpdateExecute(i) ==
    /\ tasks[i].pc = "update_execute"
    /\ LET t == tasks[i]
       IN  \/ \* the statement succeeds
              /\ txStatus # "inerror"
              /\ txStatus' = "intrans"
              /\ pendingUpdates' = dict_set(pendingUpdates, t.arg.uuid, t.similar_skus)
              /\ tasks' = [tasks EXCEPT ![i] = [t EXCEPT !.pc = "update_commit"]]
              /\ hist' = [hist EXCEPT !.updateIssued = @ \cup {i},
                                      !.updateStmtOk = @ \cup {i}]
           \/ \* the store rejects the statement: psycopg2.Error, and the
              \* transaction is aborted
              /\ txStatus # "inerror"
              /\ txStatus' = "inerror"
              /\ UNCHANGED pendingUpdates
              /\ tasks' = [tasks EXCEPT ![i] = [t EXCEPT !.pc = "update_rollback"]]
              /\ hist' = [hist EXCEPT !.updateIssued = @ \cup {i}]
           \/ \* the transaction is already aborted: InFailedSqlTransaction
              /\ txStatus = "inerror"
              /\ UNCHANGED <<txStatus, pendingUpdates>>
              /\ tasks' = [tasks EXCEPT ![i] = [t EXCEPT !.pc = "update_rollback"]]
              /\ hist' = [hist EXCEPT !.updateIssued = @ \cup {i}]
    /\ UNCHANGED <<feedVars, searchVars, pc, error, exitCode, clientVars, parseVars,
                   pendingRows, table, esVars, createCalls, similarVars>>

\* self.conn.commit(); logger.info("Updated ...")   (postgres_client.py:60-61)
UpdateCommit(i) ==
    /\ tasks[i].pc = "update_commit"
    /\ Commit
    /\ tasks' = [tasks EXCEPT ![i] = Advance(tasks[i])]
    /\ UNCHANGED <<feedVars, searchVars, pc, error, exitCode, clientVars, parseVars,
                   esVars, createCalls, similarVars, hist>>

\* except psycopg2.Error: logger.error; self.conn.rollback()   (:62-64); the
\* error is not raised again, so the caller sees a normal return
UpdateRollback(i) ==
    /\ tasks[i].pc = "update_rollback"
    /\ Rollback
    /\ tasks' = [tasks EXCEPT ![i] = Advance(tasks[i])]
    /\ hist' = [hist EXCEPT !.updateFailed = @ \cup {i}]
    /\ UNCHANGED <<feedVars, searchVars, pc, error, exitCode, clientVars, parseVars,
                   esVars, createCalls, similarVars>>

\* the n-th future of the list of main.py:123
Future(n) == CHOOSE i \in SimilarTasks : Cardinality({j \in SimilarTasks : j < i}) = n - 1

\* if result: (main.py:129): None is falsy, a uuid is truthy
truthy(returned) == returned = "uuid"

\* one iteration of the for loop over the futures (main.py:127-130):
\* future.result() waits for the task
Collect ==
    /\ pc = "collect"
    /\ IF fi < Cardinality(SimilarTasks)
       THEN /\ tasks[Future(fi + 1)].pc = "done"
            /\ fi' = fi + 1
            /\ product_count' = IF truthy(tasks[Future(fi + 1)].returned)
                                THEN product_count + 1 ELSE product_count
            /\ UNCHANGED pc
       ELSE /\ Drained
            /\ pc' = main_after("collect")
            /\ UNCHANGED <<fi, product_count>>
    /\ UNCHANGED <<feedVars, searchVars, error, exitCode, clientVars, parseVars, tasks,
                   dbVars, esVars, createCalls, fetched, all_products, hist>>

(***************************************************************************)
(* The end of main() (main.py:132-142).                                    *)
(***************************************************************************)
\* logger.info("Processed {product_count} products ...")
Summary ==
    /\ pc = "summary"
    /\ pc' = main_after("summary")
    /\ UNCHANGED <<feedVars, searchVars, error, exitCode, clientVars, parseVars, tasks,
                   dbVars, esVars, createCalls, similarVars, hist>>

\* except Exception: logger.error; sys.exit(1)
Except ==
    /\ pc = "except"
    /\ exitCode' = "1"
    /\ pc' = "finally"
    /\ UNCHANGED <<feedVars, searchVars, error, clientVars, parseVars, tasks, dbVars,
                   esVars, createCalls, similarVars, hist>>

\* close that leaves the connection open
close_Leaked(client) == client

\* pg_client.close() / es_client.close() on a client that is bound
close(client) == IF client = "open" THEN "closed" ELSE client

\* finally: close the clients that were bound, then the process ends
Finally ==
    /\ pc = "finally"
    /\ pg_client' = close(pg_client)
    /\ es_client' = close(es_client)
    /\ closeCalls' = [pg |-> closeCalls.pg + (IF pg_client # "unbound" THEN 1 ELSE 0),
                      es |-> closeCalls.es + (IF es_client # "unbound" THEN 1 ELSE 0)]
    /\ exitCode' = IF exitCode = "running" THEN "0" ELSE exitCode
    /\ pc' = "exited"
    /\ UNCHANGED <<feedVars, searchVars, error, parseVars, tasks, dbVars, esVars,
                   createCalls, similarVars, hist>>

(***************************************************************************)
(* Specifications.                                                         *)
(***************************************************************************)
MainStep ==
    \/ ConnectPostgres
    \/ ConnectElasticsearch
    \/ ParseCategory
    \/ EndCategories
    \/ ParseProduct
    \/ FlushChunk
    \/ AwaitWrites
    \/ AwaitWritesRaising
    \/ CreateProductsIndex
    \/ FetchBatch
    \/ SubmitSimilar
    \/ Collect
    \/ Summary
    \/ Except
    \/ Finally

\* the steps of the worker threads of the pools
WorkerStep ==
    \/ \E i \in 1..Len(tasks) : StartTask(i)
    \/ \E i \in 1..Len(tasks) : InsertExecute(i)
    \/ \E i \in 1..Len(tasks) : InsertCommit(i)
    \/ \E i \in 1..Len(tasks) : InsertRollback(i)
    \/ \E i \in 1..Len(tasks) : IndexBulk(i)
    \/ \E i \in 1..Len(tasks) : FindSearch(i)
    \/ \E i \in 1..Len(tasks) : UpdateExecute(i)
    \/ \E i \in 1..Len(tasks) : UpdateCommit(i)
    \/ \E i \in 1..Len(tasks) : UpdateRollback(i)

Next == MainStep \/ WorkerStep

\* the whole pipeline, over short feeds, in runs whose write tasks raise
\* nothing but what insert_products and index_products catch
Spec == Init /\ [][Next]_vars

\* the steps of a run up to the call of create_products_index, and the end
\* of a run that an exception has ended before; a write task can raise an
\* exception its functions do not catch
IngestStep ==
    \/ ConnectPostgres
    \/ ConnectElasticsearch
    \/ ParseCategory
    \/ EndCategories
    \/ ParseProduct
    \/ FlushChunk
    \/ AwaitWrites
    \/ AwaitWritesRaising
    \/ CreateProductsIndex
    \/ pc = "except" /\ Except
    \/ error # NoError /\ Finally
    \/ \E i \in 1..Len(tasks) : StartTask(i)
    \/ \E i \in 1..Len(tasks) : InsertExecute(i)
    \/ \E i \in 1..Len(tasks) : InsertCommit(i)
    \/ \E i \in 1..Len(tasks) : InsertRollback(i)
    \/ \E i \in 1..Len(tasks) : InsertRaise(i)
    \/ \E i \in 1..Len(tasks) : IndexBulk(i)

\* the ingest phase, over longer feeds
SpecIngest == InitIngest /\ [][IngestStep]_vars

\* the steps of a run in which no parse pass raises, and in which a write
\* task can raise an exception its functions do not catch
SimilarStep ==
    \/ ConnectPostgres
    \/ ConnectElasticsearch
    \/ ParseCategory
    \/ EndCategories
    \/ ParseProduct
    \/ FlushChunk
    \/ AwaitWrites
    \/ CreateProductsIndex
    \/ FetchBatch
    \/ SubmitSimilar
    \/ Collect
    \/ Summary
    \/ Except
    \/ Finally
    \/ WorkerStep
    \/ \E i \in 1..Len(tasks) : InsertRaise(i)

\* the whole pipeline over two products, one stored before and one of the
\* feed
SpecSimilar == InitSimilar /\ [][SimilarStep]_vars

\* the steps of main() up to the end of the second pass
ParseStep ==
    \/ ConnectPostgres
    \/ ConnectElasticsearch
    \/ ParseCategory
    \/ EndCategories
    \/ ParseProduct
    \/ FlushChunk

\* the two parse passes, over the feeds of ParseFeeds
SpecParse == InitParse /\ [][ParseStep]_vars

\* the steps of a run over a feed without offers up to the end of the
\* read-back loop, and the end of a run that an exception has ended before
FetchStep ==
    \/ ConnectPostgres
    \/ ConnectElasticsearch
    \/ ParseCategory
    \/ EndCategories
    \/ FlushChunk
    \/ AwaitWrites
    \/ CreateProductsIndex
    \/ FetchBatch
    \/ pc = "except" /\ Except
    \/ error # NoError /\ Finally

\* the read-back of a store that holds rows of earlier runs
SpecFetch == InitFetch /\ [][FetchStep]_vars

\* find_similar_products called on its own
FindSimilarProducts ==
    /\ query_returned = NotCalled
    /\ query_returned' = ReturnedList(find_similar_products(query_product, query_result))
    /\ UNCHANGED <<feedVars, query_product, query_result, index_call, retry, pc, error,
                   exitCode, clientVars, parseVars, tasks, dbVars, esVars,
                   createCalls, similarVars, hist>>

\* create_products_index called on its own
CreateIndexCall ==
    /\ index_call = NoIndexCall
    /\ \E o \in create_products_index(esIndex) :
          /\ esIndex' = o.index
          /\ index_call' = o
    /\ UNCHANGED <<feedVars, query_product, query_result, query_returned, retry, pc,
                   error, exitCode, clientVars, parseVars, tasks, dbVars, esDocs,
                   createCalls, similarVars, hist>>

SearchStep ==
    \/ FindSimilarProducts
    \/ CreateIndexCall

\* calls of the methods of ElasticsearchClient on their own, over every
\* product, answer and index
SpecSearch == InitSearch /\ [][SearchStep]_vars

(***************************************************************************)
(* connect_with_retry (product_matching_service.py:178-189), called on its *)
(* own with a connect_func that succeeds or raises as it likes.            *)
(***************************************************************************)
runVars == <<feedVars, query_product, query_result, query_returned, index_call, pc,
             error, exitCode, clientVars, parseVars, tasks, dbVars, esVars,
             createCalls, similarVars, hist>>

\* after_failure raising only when retries has passed max_retries
after_failure_OffByOne(retries, max_retries) ==
    IF retries > max_retries THEN "raised" ELSE "sleep"

\* the except clause after retries += 1 (:185-188): re-raise on the last
\* attempt, sleep otherwise
after_failure(retries, max_retries) ==
    IF retries = max_retries THEN "raised" ELSE "sleep"

\* while retries < max_retries (:180); the function returns None when the
\* loop ends
RetryWhile ==
    /\ retry.pc = "while"
    /\ retry' = IF retry.retries < retry.max_retries
                THEN [retry EXCEPT !.pc = "try"]
                ELSE [retry EXCEPT !.pc = "returned", !.result = "None"]
    /\ UNCHANGED runVars

\* return connect_func() (:182): the call returns a connection, which
\* connect_with_retry returns, or raises
RetryConnect ==
    /\ retry.pc = "try"
    /\ \/ retry' = [retry EXCEPT !.pc = "returned", !.result = "connection",
                                  !.events = Append(@, "connected")]
       \/ \E e \in ConnectFailures :
             retry' = [retry EXCEPT !.pc = "except", !.exc = e,
                                    !.events = Append(@, e)]
    /\ UNCHANGED runVars

\* except Exception (:183-187): count the attempt, re-raise on the last one
RetryExcept ==
    /\ retry.pc = "except"
    /\ retry' = [retry EXCEPT !.retries = @ + 1,
                              !.pc = after_failure(retry.retries + 1,
                                                   retry.max_retries)]
    /\ UNCHANGED runVars

\* time.sleep(delay) (:188), then the loop test again
RetrySleep ==
    /\ retry.pc = "sleep"
    /\ retry' = [retry EXCEPT !.pc = "while", !.events = Append(@, "sleep"),
                              !.slept = @ + retry.delay]
    /\ UNCHANGED runVars

RetryStep ==
    \/ RetryWhile
    \/ RetryConnect
    \/ RetryExcept
    \/ RetrySleep

\* connect_with_retry called on its own
SpecRetry == InitRetry /\ [][RetryStep]_vars

(***************************************************************************)
(* Properties.                                                             *)
(***************************************************************************)
ChunkTasks == {i \in 1..Len(tasks) : tasks[i].kind = "process_chunk"}

\* the ingest pool has been left: every write task has finished
IngestEnded == pc \notin {"connect_pg", "connect_es", "parse_categories",
                          "parse_products", "await_writes", "with_exit"}

\* the similarity pool has been left
SimilarityEnded == pc \in {"summary", "finally", "exited"} /\ error = NoError

\* C1: a batch whose insert_products reached commit and logged success has
\* all its rows committed once the ingest phase has ended, whatever sibling
\* batches did on the shared connection.
C1_LoggedBatchIsCommitted ==
    IngestEnded =>
        \A i \in ChunkTasks :
            i \in hist.insertLogged => uuids(tasks[i].arg) \subseteq DOMAIN table

\* C2: after insert_products has failed for a batch (it rolled back), no row
\* of that batch is committed.
C2_FailedBatchLeavesNoRow ==
    \A i \in ChunkTasks :
        i \in hist.insertFailed => uuids(tasks[i].arg) \cap DOMAIN table = {}

\* C3: a similarity task whose own UPDATE statement succeeded has, once it
\* has finished, its list stored in the product's row, whatever the updates
\* of other products did.
C3_SucceededUpdateIsStored ==
    \A i \in SimilarTasks :
        (i \in hist.updateStmtOk /\ tasks[i].pc = "done") =>
            table[tasks[i].arg.uuid] = Sku(tasks[i].similar_skus)

\* C4: the reported count is the number of products whose similarity update
\* did not fail, and each of those has its list stored.
C4_CountExcludesFailedUpdates ==
    SimilarityEnded =>
        /\ product_count = Cardinality(SimilarTasks \ hist.updateFailed)
        /\ \A i \in SimilarTasks \ hist.updateFailed :
              table[tasks[i].arg.uuid] = Sku(tasks[i].similar_skus)

\* C5: the read-back and the similarity phase begin, and a similarity task
\* exists or has started, only when every ingest write task has finished.
C5_PhaseBarrier ==
    (\/ pc \in {"create_index", "fetch", "submit_similar", "collect", "summary"}
     \/ SimilarTasks # {})
    => \A i \in ChunkTasks : tasks[i].pc = "done"

\* C5 witness: a similarity task has started in a run that had write tasks
C5_Witness ==
    /\ ChunkTasks # {}
    /\ \E i \in SimilarTasks : i \in hist.started

\* C6: in a write task index_products is called only after insert_products
\* has returned, and in a similarity task update_similar_products is called
\* only after find_similar_products has returned.
C6_OrderInsideTask ==
    /\ hist.upsertIssued \subseteq hist.insertReturned
    /\ hist.updateIssued \subseteq hist.queryReturned

\* C6 witness: a write task has upserted, and a later similarity task has
\* issued its update while an earlier one is still querying (no order
\* across tasks)
C6_Witness ==
    /\ hist.upsertIssued # {}
    /\ \E i, j \in SimilarTasks :
          /\ i < j
          /\ j \in hist.updateIssued
          /\ i \notin hist.queryReturned

\* C7: every product handed to a similarity task has had an index_products
\* call that contained it return.
C7_UpsertedBeforeQuery ==
    \A i \in SimilarTasks : tasks[i].arg.uuid \in hist.upserted

\* C7 witness: find_similar_products is about to be called for a row the
\* run itself did not insert
C7_Witness ==
    \E i \in SimilarTasks :
        /\ tasks[i].pc = "find_search"
        /\ tasks[i].arg.uuid \in OldUuids

\* the phases of a run (spec 4.7), in order, by the statement main() is at
PhaseRank ==
    CASE pc \in {"connect_pg", "connect_es"} -> 0              \* not started
      [] pc = "parse_categories" -> 1                          \* ParsingCategories
      [] pc = "parse_products" -> 2                            \* ParsingAndBatchingProducts
      [] pc \in {"await_writes", "with_exit"} -> 3             \* AwaitingWriteCompletion
      [] pc = "create_index" -> 4                              \* IndexEnsured
      [] OTHER -> 5                                            \* Done

\* C8, in every state: main() is never blocked in a parse pass;
\* create_products_index is not called before the IndexEnsured phase and has
\* been called exactly once when that phase is over
C8_State ==
    /\ pc \in {"parse_categories", "parse_products"} => ENABLED MainStep
    /\ createCalls <= 1
    /\ PhaseRank < 5 => createCalls = 0
    /\ (PhaseRank = 5 /\ error = NoError) => createCalls = 1

\* C8, in every step: the phase stays or moves forward, by one phase unless
\* an exception ends the run, and create_products_index is called only when
\* every write task has finished
C8_Step ==
    /\ PhaseRank' >= PhaseRank
    /\ error' = NoError => PhaseRank' <= PhaseRank + 1
    /\ createCalls' # createCalls => \A i \in ChunkTasks : tasks[i].pc = "done"

\* C8: a run goes through ParsingCategories, ParsingAndBatchingProducts,
\* AwaitingWriteCompletion, IndexEnsured, Done in that order; the parse loop
\* never waits for a write task; create_products_index is called exactly
\* once, after all write tasks have finished.
C8_PhasesInOrder == []C8_State /\ [][C8_Step]_vars

\* C8 witness: the ingest of a run with two write tasks is done, the index
\* ensured once
C8_Witness ==
    /\ PhaseRank = 5
    /\ error = NoError
    /\ createCalls = 1
    /\ Cardinality(ChunkTasks) = 2

\* the batches submitted, in order
Batches == [k \in 1..Cardinality(ChunkTasks) |-> tasks[k].arg]

RECURSIVE Flatten(_)
Flatten(seqs) == IF seqs = <<>> THEN <<>> ELSE Head(seqs) \o Flatten(Tail(seqs))

CeilDiv(n, k) == (n + k - 1) \div k

\* the parse loop has run to the end of the feed
LoopEnded ==
    /\ pc \notin {"connect_pg", "connect_es", "parse_categories", "parse_products"}
    /\ error.origin \notin {"PostgresClient", "ElasticsearchClient",
                            "parse_categories", "parse_products"}

\* C9: during the loop every submitted batch has CHUNK_SIZE products and the
\* batches followed by the batch being filled are the products yielded so
\* far; after the loop there are ceil(N/K) batches, all of K products except
\* a non-empty last one, holding every yielded product once, in order.
C9_Batching ==
    /\ pc = "parse_products" =>
          /\ \A k \in 1..Len(Batches) : Len(Batches[k]) = CHUNK_SIZE
          /\ Len(chunk) < CHUNK_SIZE
          /\ Flatten(Batches) \o chunk = yielded
    /\ LoopEnded =>
          /\ Len(Batches) = CeilDiv(Len(yielded), CHUNK_SIZE)
          /\ \A k \in 1..(Len(Batches) - 1) : Len(Batches[k]) = CHUNK_SIZE
          /\ Len(Batches) > 0 =>
                Len(Batches[Len(Batches)]) \in 1..CHUNK_SIZE
          /\ Flatten(Batches) = yielded
    /\ \A a, b \in 1..Len(yielded) : a # b => yielded[a].uuid # yielded[b].uuid

\* C9 witness: three products were batched as a full batch and a remainder
C9_Witness ==
    /\ LoopEnded
    /\ Len(yielded) = CHUNK_SIZE + 1
    /\ Len(Batches) = 2
    /\ Len(Batches[2]) = 1

\* a text that is a whole number
IsNumber(x) == x \in DOMAIN IntText

\* a category record whose id is missing or not an integer, or whose
\* parentId is there and not an integer
MalformedCategory(elem) ==
    \/ ~IsNumber(elem.id)
    \/ elem.parentId # NoneValue /\ ~IsNumber(elem.parentId)

\* an offer whose id attribute is missing or not an integer, or one of whose
\* numeric elements is there and not a number
MalformedOffer(elem) ==
    \/ ~IsNumber(elem.id)
    \/ \E f \in {"categoryId", "shop_id", "price", "discount", "oldprice", "barcode"} :
          elem[f] # NoneValue /\ ~IsNumber(elem[f])

\* the records among the first n of a section that satisfy P
Among(section, n, P(_)) == {k \in 1..n : P(section[k])}

\* C10: no malformed record aborts a pass: each malformed record consumed so
\* far was skipped and logged, and each well-formed one was processed (its
\* category is in the map, its product was yielded).
C10_MalformedRecordIsSkipped ==
    /\ error.origin \notin {"parse_categories", "parse_products"}
    /\ errorsLogged = Cardinality(Among(feedCategories, ci, MalformedCategory))
                      + Cardinality(Among(feedOffers, oi, MalformedOffer))
    /\ Len(yielded) = oi - Cardinality(Among(feedOffers, oi, MalformedOffer))
    /\ \A k \in 1..ci :
          ~MalformedCategory(feedCategories[k]) =>
              IntText[feedCategories[k].id] \in DOMAIN categories

\* parse_categories has returned the category map
CategoriesParsed ==
    /\ pc \notin {"connect_pg", "connect_es", "parse_categories"}
    /\ error.origin \notin {"PostgresClient", "ElasticsearchClient", "parse_categories"}

\* the id and the parent id a well-formed category record declares
IdOf(elem) == IntText[elem.id]
ParentOf(elem) == IF elem.parentId = NoneValue THEN 0 ELSE IntText[elem.parentId]

\* well-formed records, no two with the same id
UniqueIds(cs) ==
    /\ \A k \in 1..Len(cs) : ~MalformedCategory(cs[k])
    /\ \A a, b \in 1..Len(cs) : a # b => IdOf(cs[a]) # IdOf(cs[b])

\* following the declared parents from id reaches zero within fuel records
RECURSIVE ReachesRoot(_, _, _)
ReachesRoot(cs, id, fuel) ==
    IF id = 0 THEN TRUE
    ELSE IF fuel = 0 THEN FALSE
    ELSE \E k \in 1..Len(cs) :
            IdOf(cs[k]) = id /\ ReachesRoot(cs, ParentOf(cs[k]), fuel - 1)

\* the records form a tree (a forest of roots with parentId zero): unique
\* ids, every declared parent is a record, no cycle
IsTree(cs) ==
    /\ UniqueIds(cs)
    /\ \A k \in 1..Len(cs) : ReachesRoot(cs, IdOf(cs[k]), Len(cs))

\* the names from the root down to the record with this id
RECURSIVE RootToLeaf(_, _)
RootToLeaf(cs, id) ==
    IF id = 0 THEN <<>>
    ELSE LET k == CHOOSE k \in 1..Len(cs) : IdOf(cs[k]) = id
         IN  RootToLeaf(cs, ParentOf(cs[k])) \o <<cs[k].name>>

\* every record follows the record of its parent in the feed
ParentsFirst(cs) ==
    \A k \in 1..Len(cs) :
        ParentOf(cs[k]) # 0 => \E j \in 1..(k - 1) : IdOf(cs[j]) = ParentOf(cs[k])

\* every record's stored path is its root-to-leaf sequence of names
PathsExact(cs) ==
    \A k \in 1..Len(cs) :
        /\ IdOf(cs[k]) \in DOMAIN categories
        /\ categories[IdOf(cs[k])] = RootToLeaf(cs, IdOf(cs[k]))

\* C11 as stated: for category records with unique ids that form a tree, in
\* whatever order they appear in the feed, after pass 1 the path stored for
\* each id is the root-to-leaf sequence of names.
C11_PathInAnyOrder ==
    (CategoriesParsed /\ IsTree(feedCategories)) => PathsExact(feedCategories)

\* C11 amended: for category records with unique ids that form a tree and
\* appear in the feed each after its parent, after pass 1 the path stored
\* for each id is the root-to-leaf sequence of names.
C11_PathWhenParentsFirst ==
    (CategoriesParsed /\ IsTree(feedCategories) /\ ParentsFirst(feedCategories))
        => PathsExact(feedCategories)

\* C11 witness: pass 1 has stored the five-name path of a chain of five
\* records
C11_Witness ==
    /\ CategoriesParsed
    /\ IsTree(feedCategories)
    /\ ParentsFirst(feedCategories)
    /\ \E id \in DOMAIN categories : categories[id] = <<"A", "B", "C", "D", "E">>

\* the offer a yielded product was built from
OfferOf(product) == feedOffers[product.uuid]

\* the value of a numeric element of the feed, zero when it is absent
NumberOr0(x) == IF x = NoneValue THEN 0 ELSE IntText[x]

\* the i-th name of a path, null when the path is shorter
NameAt(path, i) == IF i <= Len(path) THEN path[i] ELSE NoneValue

\* text is the names of path after the third, a "/" between neighbours
IsJoinedRemainder(text, path) ==
    /\ Len(text) = 2 * (Len(path) - 3) - 1
    /\ \A j \in 1..(Len(path) - 3) : text[2 * j - 1] = path[3 + j]
    /\ \A j \in 1..(Len(path) - 4) : text[2 * j] = "/"

\* C12: for every yielded product, category_lvl_1..3 are the first three
\* names of the path stored for its categoryId (null when the path is
\* shorter, all null when the id is unknown), and category_remaining is the
\* "/"-join of the names after the third, null when there are at most three.
C12_CategoryLevels ==
    \A k \in 1..Len(yielded) :
        LET p == yielded[k]
            cid == NumberOr0(OfferOf(p).categoryId)
            path == IF cid \in DOMAIN categories THEN categories[cid] ELSE <<>>
        IN  /\ p.category_id = cid
            /\ p.category_lvl_1 = NameAt(path, 1)
            /\ p.category_lvl_2 = NameAt(path, 2)
            /\ p.category_lvl_3 = NameAt(path, 3)
            /\ IF Len(path) <= 3
               THEN p.category_remaining = StrNone
               ELSE IsJoinedRemainder(p.category_remaining, path)

\* C12 witness: products of a five-name path, of a two-name path and of an
\* unknown category have been yielded
C12_Witness ==
    /\ \E k \in 1..Len(yielded) :
          /\ yielded[k].category_lvl_3 = "C"
          /\ yielded[k].category_remaining = <<"D", "/", "E">>
    /\ \E k \in 1..Len(yielded) :
          /\ yielded[k].category_lvl_1 = NoneValue
          /\ yielded[k].category_remaining = StrNone

\* C13: for every yielded product, price_after_discounts is the offer's
\* oldprice when that is present and nonzero and the offer's price otherwise
\* (0 when absent), price_before_discounts is the price and discount the
\* discount, each 0 when absent.
C13_Prices ==
    \A k \in 1..Len(yielded) :
        LET p == yielded[k]
            o == OfferOf(p)
        IN  /\ p.price_before_discounts = NumberOr0(o.price)
            /\ p.discount = NumberOr0(o.discount)
            /\ p.price_after_discounts =
                  IF o.oldprice # NoneValue /\ IntText[o.oldprice] # 0
                  THEN IntText[o.oldprice]
                  ELSE NumberOr0(o.price)

\* C13 witness: products have been yielded for an offer with a nonzero
\* oldprice and a discount, for one with oldprice 0, and for one with
\* neither price nor oldprice
C13_Witness ==
    /\ \E k \in 1..Len(yielded) :
          /\ OfferOf(yielded[k]).oldprice = "80"
          /\ OfferOf(yielded[k]).discount = "3"
          /\ yielded[k].price_after_discounts = 80
    /\ \E k \in 1..Len(yielded) :
          \/ /\ OfferOf(yielded[k]).oldprice = "0"
             /\ yielded[k].price_after_discounts = 100
          \/ /\ OfferOf(yielded[k]).oldprice = NoneValue
             /\ OfferOf(yielded[k]).price = NoneValue
             /\ yielded[k].price_after_discounts = 0

\* the hits of an answer that are not the product itself
OtherHits(hits, uuid) == {j \in 1..Len(hits) : hits[j] # uuid}

\* C14: find_similar_products returns at most 5 ids, the ids of the engine's
\* hits other than the queried product in the engine's order; it returns
\* the empty list for a product without an id.
C14_FindSimilar ==
    query_returned # NotCalled =>
        LET l == query_returned.list
            hits == query_result.hits
        IN  /\ query_returned.state = "returned"
            /\ Len(l) <= 5
            /\ "uuid" \notin DOMAIN query_product => l = <<>>
            /\ "uuid" \in DOMAIN query_product =>
                  LET others == OtherHits(hits, query_product.uuid)
                  IN  /\ \A a \in 1..Len(l) : l[a] # query_product.uuid
                      /\ Len(l) = Cardinality(others)
                      /\ \A j \in others :
                            l[Cardinality({m \in others : m <= j})] = hits[j]

\* C14 witness: a call has returned two of five hits, the other three being
\* the product itself
C14_Witness ==
    /\ query_returned.state = "returned"
    /\ Len(query_result.hits) = 5
    /\ Len(query_returned.list) = 2

\* C18, a call of create_products_index: on an existing index it creates
\* nothing and leaves the index as it is; on an absent index a create that
\* succeeds leaves the index with the fixed mapping; a failing create,
\* also when another run has created the index meanwhile, is logged and
\* not raised.  The documents are never touched.
C18_Call ==
    index_call' # index_call =>
        /\ index_call'.raised # "indices.create"
        /\ esDocs' = esDocs
        /\ (esIndex # "absent" /\ index_call'.raised = "no") =>
              /\ index_call'.log = "already exists"
              /\ esIndex' = esIndex
        /\ (esIndex = "absent" /\ index_call'.raised = "no") =>
              /\ index_call'.log \in {"created successfully", "Failed to create"}
              /\ index_call'.log = "created successfully" => esIndex' = "fixed"

\* C18: create_products_index is idempotent and tolerates a creation race
C18_CreateIdempotent == [][C18_Call]_vars

\* C18 witness: the create call has failed because another run had created
\* the index since the check, and the call has returned
C18_Witness ==
    /\ index_call.log = "Failed to create"
    /\ index_call.raised = "no"
    /\ esIndex \in {"fixed", "dynamic"}

\* main() has logged its summary and no exception has reached it
RunEndedOk == pc \in {"finally", "exited"} /\ error = NoError

\* the similarity tasks submitted for a product
TasksOf(u) == {i \in SimilarTasks : tasks[i].arg.uuid = u}

\* how often a task has called a function
CallCount(t, call) == Cardinality({k \in 1..Len(t.calls) : t.calls[k] = call})

\* C15 as stated: by the end of a run every product in the relational store
\* has exactly one similarity task and its similarity list has been set.
C15_EveryListSet ==
    RunEndedOk =>
        \A u \in DOMAIN table :
            /\ Cardinality(TasksOf(u)) = 1
            /\ ~table[u].null

\* C15 amended: by the end of a run that reaches its summary every product
\* in the relational store has exactly one similarity task, which has
\* called update_similar_products for it exactly once, and there is no
\* other similarity task.
C15_OneUpdateCallPerProduct ==
    RunEndedOk =>
        /\ \A u \in DOMAIN table :
              /\ Cardinality(TasksOf(u)) = 1
              /\ \A i \in TasksOf(u) :
                    CallCount(tasks[i], "update_similar_products") = 1
        /\ \A i \in SimilarTasks : tasks[i].arg.uuid \in DOMAIN table

\* C15 witness: a run has ended with the list of one product set and the
\* list of another, whose update failed, not set
C15_Witness ==
    /\ RunEndedOk
    /\ \E u, v \in DOMAIN table :
          /\ ~table[u].null
          /\ table[v].null
          /\ \E i \in TasksOf(v) : i \in hist.updateFailed

\* how often a client has to have been closed: once if it was ever opened
ClosedOnce(client, calls) ==
    /\ client # "open"
    /\ calls = IF client = "closed" THEN 1 ELSE 0

\* C16: when connecting to either store fails or any other exception reaches
\* main(), the process exits with a non-zero status and every client that
\* had been opened is closed before; on a run without a fatal error both
\* clients are closed exactly once, at the end.
C16_ClosedBeforeExit ==
    /\ pc # "exited" =>
          /\ exitCode \in {"running", "1"}
          /\ pg_client # "closed" /\ es_client # "closed"
          /\ closeCalls = [pg |-> 0, es |-> 0]
    /\ pc = "exited" =>
          /\ ClosedOnce(pg_client, closeCalls.pg)
          /\ ClosedOnce(es_client, closeCalls.es)
          /\ error # NoError => exitCode = "1"
          /\ error.origin = "PostgresClient" =>
                pg_client = "unbound" /\ es_client = "unbound"
          /\ error.origin = "ElasticsearchClient" =>
                pg_client = "closed" /\ es_client = "unbound"
          /\ error.origin \notin {"PostgresClient", "ElasticsearchClient"} =>
                pg_client = "closed" /\ es_client = "closed"
          /\ error = NoError => exitCode = "0"

\* C16 witness: the run has exited after the connection to the search
\* engine failed, the relational client closed
C16_Witness ==
    /\ pc = "exited"
    /\ error.origin = "ElasticsearchClient"
    /\ exitCode = "1"
    /\ pg_client = "closed"

\* the statements of main() that only raise when a connection, a parse pass
\* or the read-back raises, never because of what a task did
MainOrigins ==
    {"none", "PostgresClient", "ElasticsearchClient", "parse_categories",
     "parse_products", "create_products_index", "fetch_products"}

\* C17, in every state: no task calls insert_products or
\* update_similar_products twice, a finished write task has called
\* insert_products once, no product has two similarity tasks, no exception
\* of a task reaches main(), and the run is never stuck before its exit.
C17_State ==
    /\ \A i \in ChunkTasks :
          /\ CallCount(tasks[i], "insert_products") <= 1
          /\ tasks[i].pc = "done" => CallCount(tasks[i], "insert_products") = 1
    /\ \A i \in SimilarTasks :
          /\ CallCount(tasks[i], "update_similar_products") <= 1
          /\ Cardinality(TasksOf(tasks[i].arg.uuid)) = 1
    /\ error.origin \in MainOrigins
    /\ pc # "exited" => ENABLED Next

\* C17, in every step: while main() waits for write tasks, submits
\* similarity tasks or collects their results, it goes on to the next
\* statement and never to the exception handler, whatever the tasks did.
C17_Step ==
    /\ pc = "await_writes" => pc' \in {"await_writes", "create_index"}
    /\ pc = "submit_similar" => pc' \in {"submit_similar", "collect"}
    /\ pc = "collect" => pc' \in {"collect", "summary"}
    /\ pc = "summary" => pc' \in {"summary", "finally"} /\ error' = NoError

\* C17: no retry and no abort on task failure: whatever inserts, upserts,
\* queries and updates fail, every batch has insert_products called exactly
\* once, every fetched product has update_similar_products called at most
\* once, and the run goes on to its summary.
C17_NoRetryNoAbort == []C17_State /\ [][C17_Step]_vars

\* C17 witness: a run in which an insert and an update failed has logged
\* its summary
C17_Witness ==
    /\ RunEndedOk
    /\ hist.insertFailed # {}
    /\ hist.updateFailed # {}

\* the product records the read-back has handed to main() and main() holds
HeldRecords == Len(all_products)

\* C19: at every point of the run the number of fetched product records the
\* pipeline holds is at most the page size, however many rows are stored.
C19_HeldRecordsBounded == HeldRecords <= CHUNK_SIZE

\* fetch_products has ended: the read-back loop is over
FetchEnded ==
    /\ pc \notin {"connect_pg", "connect_es", "parse_categories", "parse_products",
                  "await_writes", "with_exit", "create_index", "fetch"}
    /\ error = NoError

\* C20: fetch_products yields non-empty batches of at most B rows that are
\* the stored rows, each once; over N rows it has yielded ceil(N/B) batches
\* when it ends, none for N = 0.
C20_Pagination ==
    LET batches == hist.batches
        rows == Flatten(batches)
    IN  /\ \A k \in 1..Len(batches) : Len(batches[k]) \in 1..CHUNK_SIZE
        /\ \A a, b \in 1..Len(rows) : a # b => rows[a].uuid # rows[b].uuid
        /\ uuids(rows) \subseteq DOMAIN table
        /\ FetchEnded =>
              /\ uuids(rows) = DOMAIN table
              /\ Len(batches) = CeilDiv(Cardinality(DOMAIN table), CHUNK_SIZE)

\* C20 witness: the rows came as a full batch and a remainder
C20_Witness ==
    /\ FetchEnded
    /\ Len(hist.batches) = 2
    /\ Len(hist.batches[1]) = CHUNK_SIZE
    /\ Len(hist.batches[2]) = 1

\* record k of the category section names a non-zero parent that has no
\* entry in the map when the record is processed: no earlier record stored
\* one
Orphan(cs, k) ==
    /\ ~MalformedCategory(cs[k])
    /\ ParentOf(cs[k]) # 0
    /\ \A j \in 1..(k - 1) :
          ~MalformedCategory(cs[j]) => IdOf(cs[j]) # ParentOf(cs[k])

\* no processed record after record k carries the id of record k
NotRedeclared(cs, k) ==
    \A j \in (k + 1)..ci : ~MalformedCategory(cs[j]) => IdOf(cs[j]) # IdOf(cs[k])

\* the entry of record k is the single-element path of its name
SingleElementPath(cs, k) ==
    /\ IdOf(cs[k]) \in DOMAIN categories
    /\ categories[IdOf(cs[k])] = <<cs[k].name>>

\* C21 as stated: the single-element path of a record whose parent had no
\* entry is never revised by later records.
C21_OrphanPathNeverRevised ==
    \A k \in 1..ci : Orphan(feedCategories, k) => SingleElementPath(feedCategories, k)

\* C21, in every state: the single-element path of a record whose parent had
\* no entry stays as long as no later record carries the same id; the pass
\* never reads past the feed and always has a next step.
C21_State ==
    /\ \A k \in 1..ci :
          Orphan(feedCategories, k) /\ NotRedeclared(feedCategories, k)
              => SingleElementPath(feedCategories, k)
    /\ ci <= Len(feedCategories)
    /\ pc = "parse_categories" => ENABLED (ParseCategory \/ EndCategories)

\* C21, in every step: a record whose non-zero parent has no entry gets the
\* path [name]; only the entry of the processed record is set or changed;
\* a step of the pass consumes a record or ends the pass.
C21_Step ==
    /\ \A id \in DOMAIN categories' :
          (id \notin DOMAIN categories \/ categories'[id] # categories[id])
              => /\ pc = "parse_categories"
                 /\ ci' = ci + 1
                 /\ ~MalformedCategory(feedCategories[ci'])
                 /\ IdOf(feedCategories[ci']) = id
    /\ DOMAIN categories \subseteq DOMAIN categories'
    /\ (pc = "parse_categories" /\ ci' = ci + 1)
          => LET elem == feedCategories[ci']
             IN  (/\ ~MalformedCategory(elem)
                  /\ ParentOf(elem) # 0
                  /\ ParentOf(elem) \notin DOMAIN categories)
                     => /\ IdOf(elem) \in DOMAIN categories'
                        /\ categories'[IdOf(elem)] = <<elem.name>>
    /\ pc = "parse_categories" => ci' = ci + 1 \/ pc' # pc

\* C21: single forward pass over categories: a record whose non-zero parent
\* has no entry when it is processed gets the path [name], which later
\* records with another id never revise; a record changes only its own
\* entry; the pass ends on every feed, cyclic declarations included.
C21_SingleForwardPass == []C21_State /\ [][C21_Step]_vars

\* C21 witness: pass 1 has returned with the single-element path of a record
\* whose parent was declared after it
C21_Witness ==
    /\ CategoriesParsed
    /\ \E k \in 1..Len(feedCategories) :
          /\ Orphan(feedCategories, k)
          /\ SingleElementPath(feedCategories, k)
          /\ \E j \in (k + 1)..Len(feedCategories) :
                /\ ~MalformedCategory(feedCategories[j])
                /\ IdOf(feedCategories[j]) = ParentOf(feedCategories[k])
                /\ IdOf(feedCategories[j]) # IdOf(feedCategories[k])

\* the calls of connect_func so far, and those that raised
ConnectCalls == {k \in 1..Len(retry.events) : retry.events[k] # "sleep"}
FailedCalls == {k \in 1..Len(retry.events) : retry.events[k] \in ConnectFailures}
Sleeps == {k \in 1..Len(retry.events) : retry.events[k] = "sleep"}

\* connect_with_retry has returned or raised
RetryEnded == retry.pc \in {"returned", "raised"}

\* C22: connect_with_retry calls connect_func at most max_retries times,
\* returns the result of the first successful call without calling again,
\* sleeps delay only between a failed call and the next call, re-raises the
\* last failure after exactly max_retries failures in a row, and with
\* max_retries = 0 returns None without a call.
C22_ConnectWithRetry ==
    LET events == retry.events
        n == Len(events)
    IN  /\ Cardinality(ConnectCalls) <= retry.max_retries
        \* a successful call is the last thing the function does
        /\ \A k \in 1..n : events[k] = "connected" =>
              k = n /\ retry.pc = "returned" /\ retry.result = "connection"
        /\ retry.result = "connection" => n > 0 /\ events[n] = "connected"
        \* a sleep follows a failed call and is followed by the next call
        /\ \A k \in Sleeps :
              /\ k > 1 /\ events[k - 1] \in ConnectFailures
              /\ k < n => events[k + 1] # "sleep"
              /\ k = n => retry.pc \in {"while", "try"}
        /\ retry.slept = retry.delay * Cardinality(Sleeps)
        \* the last of max_retries failures is raised again, and nothing
        \* else is ever raised
        /\ retry.pc = "raised" <=>
              /\ retry.max_retries > 0
              /\ Cardinality(FailedCalls) = retry.max_retries
              /\ retry.retries = retry.max_retries
        /\ retry.pc = "raised" =>
              /\ Cardinality(ConnectCalls) = retry.max_retries
              /\ retry.exc = events[n]
              /\ Cardinality(Sleeps) = retry.max_retries - 1
        /\ retry.max_retries = 0 =>
              /\ events = <<>>
              /\ RetryEnded => retry.pc = "returned" /\ retry.result = "None"
        /\ (RetryEnded /\ retry.result = "None") => retry.max_retries = 0
        /\ retry.pc \notin {"not called", "returned", "raised"} => ENABLED RetryStep

\* C22 witness: the call has returned the connection of its last allowed
\* attempt, after failures and sleeps
C22_Witness ==
    /\ retry.pc = "returned"
    /\ retry.result = "connection"
    /\ retry.max_retries >= 2
    /\ Cardinality(ConnectCalls) = retry.max_retries
    /\ Cardinality(Sleeps) = retry.max_retries - 1
    /\ retry.slept > 0

\* every document of the search index has a committed row
DocsHaveRows == esDocs \subseteq DOMAIN table

\* C23: every write task issues its search upsert, whether its insert
\* committed or was rolled back; once ingest has ended every document has a
\* committed row provided no insert failed.
C23_UpsertWhateverInsertDid ==
    /\ \A i \in ChunkTasks :
          /\ i \in hist.insertReturned =>
                /\ i \in hist.insertLogged \cup hist.insertFailed
                /\ tasks[i].pc \in {"index_bulk", "done"}
          /\ (tasks[i].pc = "done" /\ tasks[i].returned # "raised") =>
                i \in hist.insertReturned /\ i \in hist.upsertIssued
    /\ (IngestEnded /\ hist.insertFailed = {}) => DocsHaveRows

\* C23 witness: ingest has ended; a task whose insert was rolled back has
\* upserted its batch, and a document of it has no row
C23_Witness ==
    /\ IngestEnded
    /\ \E i \in hist.insertFailed \cap hist.upsertIssued :
          \E u \in uuids(tasks[i].arg) : u \in esDocs /\ u \notin DOMAIN table

\* what es.search does when the query fails, and when it finds nothing
QueryFailed == SearchResult("raise", <<>>)
NothingFound == SearchResult("hits", <<>>)

\* C24, in every state: a similarity task whose query fails goes on exactly
\* as one whose query found nothing: the two returns lead to the same state;
\* a finished task has handed back its uuid, and every product is counted.
C24_State ==
    /\ \A i \in SimilarTasks :
          /\ tasks[i].pc = "find_search" =>
                /\ ENABLED FindSearchReturn(i, QueryFailed)
                /\ ENABLED (FindSearchReturn(i, QueryFailed)
                              /\ FindSearchReturn(i, NothingFound))
          /\ tasks[i].pc = "done" => truthy(tasks[i].returned)
          /\ esIndex = "absent" /\ i \in hist.queryReturned =>
                tasks[i].similar_skus = <<>>
    /\ (pc \in {"summary", "finally", "exited"} /\ error = NoError) =>
          product_count = Cardinality(SimilarTasks)
    /\ (RunEndedOk /\ esIndex = "absent") =>
          \A u \in DOMAIN table : ~table[u].null => table[u] = Sku(<<>>)

\* C24, in every step: after find_similar_products the task calls
\* update_similar_products, and the UPDATE that succeeds writes the list the
\* query handed back, the empty list when the query failed.
C24_Step ==
    \A i \in SimilarTasks :
        /\ (tasks[i].pc = "find_search" /\ tasks'[i].pc # "find_search") =>
              /\ tasks'[i].pc = "update_execute"
              /\ esIndex = "absent" => tasks'[i].similar_skus = <<>>
        /\ (tasks[i].pc = "update_execute" /\ tasks'[i].pc = "update_commit") =>
              /\ tasks[i].arg.uuid \in DOMAIN pendingUpdates'
              /\ pendingUpdates'[tasks[i].arg.uuid] = tasks[i].similar_skus

RaisedTasks == {i \in ChunkTasks : tasks[i].returned = "raised"}

\* the rows an earlier run left in the store
OldRows == DOMAIN table \cap OldUuids

C25_State ==
    /\ error.origin \in MainOrigins
    /\ pc = "exited" => (exitCode = "1" <=> error # NoError)
    /\ (RaisedTasks # {} /\ pc = "exited" /\ error = NoError) => exitCode = "0"
    /\ (pc \in {"summary", "finally", "exited"} /\ error = NoError) =>
          /\ createCalls = 1
          /\ product_count = Len(all_products)
          /\ uuids(all_products) = DOMAIN table
    /\ \A i \in RaisedTasks : i \notin hist.insertReturned \cup hist.upsertIssued
    /\ pc # "exited" => ENABLED SimilarStep

\* C25, in every step: the exception of a task changes nothing main()
\* holds, and main() leaves the ingest pool for create_products_index
\* whatever the tasks did.
C25_Step ==
    /\ (\E i \in ChunkTasks : tasks[i].returned # "raised" /\ tasks'[i].returned = "raised")
          => UNCHANGED <<pc, error, exitCode, product_count>>
    /\ pc = "await_writes" =>
          /\ pc' \in {"await_writes", "create_index"}
          /\ error' = NoError

====
